---- MODULE Spec2Model ----
(***************************************************************************)
(* State-machine model of swift-exporter: the start-up sequence of main,   *)
(* the five collection goroutines, the collectors they call, the gauge     *)
(* registry the collectors write and the /metrics handler that reads it.   *)
(*                                                                         *)
(* Spec is the whole process: start-up, then the five goroutines one pass  *)
(* of their loop at a time, with the external world either answering every *)
(* call or failing in a way that blocks the goroutine or ends the process. *)
(* SpecCollect is one goroutine and the endpoint, one collector call at a  *)
(* time and with every answer the external calls can give.  There a        *)
(* collector call is two steps: Call performs its external calls (files,   *)
(* subprocesses, HTTP) and keeps what they returned in the goroutine's     *)
(* locals; Return performs the gauge writes computed from those locals and *)
(* returns, panics or exits.                                               *)
(*                                                                         *)
(* Floating point values are pairs <<numerator, denominator>>: <<0, 0>> is *)
(* NaN and <<1, 0>> is +Inf.                                               *)
(***************************************************************************)
EXTENDS Integers, Sequences, FiniteSets, TLC

VARIABLES
    phase,      \* position of main: "init", "main", "args", "version", "parsed", "checked", "tasks", "serving"
    exit,       \* [code, cause]: code -1 while the process runs
    argKind,    \* what main found on the command line
    sanity,     \* the arguments of the SanityCheckOnFiles call of the step just taken
    config,     \* the package-level Config value
    registered, \* gauge families passed to prometheus.MustRegister
    reg,        \* the registry: (family, label values) -> value
    pc,         \* per goroutine: 0 before its go statement, then the index of its next
                \* collector call, Len + 1 while it sleeps
    loc,        \* per goroutine: locals of the collector call in progress
    hung,       \* per goroutine: blocked for ever inside an external call
    snap        \* the /metrics response sent by the step just taken

vars == <<phase, exit, argKind, sanity, config, registered, reg, pc, loc, hung, snap>>

----------------------------------------------------------------------------
(* Bounds of the model *)

\* Largest counter value a recon file or a progress file holds.
MaxCount == 1

----------------------------------------------------------------------------
(* Floating point values *)

RECURSIVE Gcd(_, _)
Gcd(a, b) == IF b = 0 THEN a ELSE Gcd(b, a % b)

Num(n) == <<n, 1>>
NaN == <<0, 0>>
PosInf == <<1, 0>>

\* Go's float64 division a / b of two non-negative whole numbers.
FDiv(a, b) ==
    IF b = 0 THEN (IF a = 0 THEN NaN ELSE PosInf)
    ELSE LET g == Gcd(a, b) IN <<a \div g, b \div g>>

----------------------------------------------------------------------------
(* Configuration *)

Flags == {"ReadReconFileEnable", "GrabSwiftPartitionEnable", "SwiftDiskUsageEnable",
          "SwiftDriveIOEnable", "GatherReplicationEstimateEnable",
          "GatherStoragePolicyUtilizationEnable", "CheckObjectServerConnectionEnable",
          "ExposePerCPUUsageEnable", "ExposePerNICMetricEnable"}

\* The Config literal of the var block: every module on.
DefaultConfig == [f \in Flags |-> TRUE]

\* Files SanityCheckOnFiles stats.
CheckedFiles == {"SwiftConfigFile", "AccountReconFile", "ContainerReconFile",
                 "ObjectReconFile", "ReplicationProgressFile", "SwiftLogFile"}

ReconFiles == {"AccountReconFile", "ContainerReconFile", "ObjectReconFile"}

\* The sets of files that exist when SanityCheckOnFiles runs: all of them, all
\* but swift.conf, all but one recon file, all but the three recon files, all
\* but the replication-progress file.
FileStates ==
    { CheckedFiles,
      CheckedFiles \ {"SwiftConfigFile"},
      CheckedFiles \ {"AccountReconFile"},
      CheckedFiles \ ReconFiles,
      CheckedFiles \ {"ReplicationProgressFile"} }

\* Contents of a YAML config file that parses: the keys it sets.
YamlFiles ==
    { [f \in {} |-> TRUE],
      [f \in Flags |-> FALSE],
      [f \in {"ReadReconFileEnable", "GrabSwiftPartitionEnable"} |-> FALSE] }

\* What os.Args[1] can be.
ArgKinds == {"none", "help", "missing", "unreadable", "badyaml", "goodyaml"}

\* yaml.Unmarshal(yamlFile, &config): keys present in the file overwrite the
\* field, the others keep their value.
Unmarshal(cfg, yaml) == [f \in Flags |-> IF f \in DOMAIN yaml THEN yaml[f] ELSE cfg[f]]

\* The assignment "config.ReadReconFileEnable = true" taken out of the block
\* that the flag guards.
SanityReadReconForced(cfg, present) == TRUE

\* The ReadReconFile block of SanityCheckOnFiles: three stats that each
\* clear the flag when the file is absent, then the assignment
\* "config.ReadReconFileEnable = true" that follows them in the same block.
SanityReadRecon(cfg, present) ==
    IF cfg["ReadReconFileEnable"]
    THEN LET afterStats == ReconFiles \subseteq present
         IN  afterStats \/ TRUE
    ELSE FALSE

\* The GrabSwiftPartition and GatherReplicationEstimate blocks: one stat.
SanityFileFlag(cfg, flag, file, present) ==
    IF cfg[flag] THEN file \in present ELSE FALSE

\* SanityCheckOnFiles: exits when swift.conf is absent, otherwise rewrites the
\* flags of the three file-backed modules.
SanityCheckOnFiles(cfg, present) ==
    IF "SwiftConfigFile" \notin present
    THEN [exits |-> TRUE, cfg |-> cfg]
    ELSE [exits |-> FALSE,
          cfg |-> [cfg EXCEPT
              !["ReadReconFileEnable"] = SanityReadRecon(cfg, present),
              !["GrabSwiftPartitionEnable"] =
                  SanityFileFlag(cfg, "GrabSwiftPartitionEnable", "ReplicationProgressFile", present),
              !["GatherReplicationEstimateEnable"] =
                  SanityFileFlag(cfg, "GatherReplicationEstimateEnable", "SwiftLogFile", present)]]

----------------------------------------------------------------------------
(* The registry *)

\* Sum of two values, as Gauge.Add would compute it.
FAdd(a, b) ==
    IF a[2] = 0 THEN a ELSE IF b[2] = 0 THEN b
    ELSE FDiv(a[1] * b[2] + b[1] * a[2], a[2] * b[2])

\* A registry whose writes accumulate: Add where the code calls Set.
GaugeAdd(r, e, v) ==
    [x \in DOMAIN r \cup {e} |->
        IF x = e THEN (IF e \in DOMAIN r THEN FAdd(r[e], v) ELSE v) ELSE r[x]]

\* A registry that keeps the first value written to an entry.
GaugeSetOnce(r, e, v) ==
    [x \in DOMAIN r \cup {e} |-> IF x \in DOMAIN r THEN r[x] ELSE v]

\* GaugeVec.WithLabelValues(labels...).Set(v) and Gauge.Set(v): the entry is
\* created when absent and its value replaced.
GaugeSet(r, e, v) == [x \in DOMAIN r \cup {e} |-> IF x = e THEN v ELSE r[x]]

RECURSIVE ApplyWrites(_, _)
\* The writes of one collector call, in program order.
ApplyWrites(r, ws) ==
    IF ws = <<>> THEN r
    ELSE ApplyWrites(GaugeSet(r, Head(ws)[1], Head(ws)[2]), Tail(ws))

Families == {"ac_script_version",
    "account_server", "container_server", "object_server",
    "swift_object_replication_per_disk", "swift_object_replication_estimate",
    "swift_object_replication_per_disk_estimate", "swift_container_sharding",
    "swift_drive_primary_partitions", "swift_drive_handoff_partitions",
    "swift_log_file_size", "swift_storage_policy_usage",
    "swift_container_replication_estimate", "swift_account_replication_estimage",
    "account_db", "account_db_pending", "container_db", "container_db_pending",
    "object_file_count", "swift_service_status", "swift_sub_service_status",
    "cpu_stat", "nic_stat", "swift_drive_usage", "swift_inodes_total",
    "swift_drive_io_stat", "nic_mtu", "swift_drive_percentage_used",
    "swift_drive_reallocated_sector_count", "swift_drive_offline_uncorrectable_count",
    "swift_drive_media_wearout_indicator_count", "swift_drive_wear_leveling_count",
    "swift_object_server_connection"}

\* A snapshot that lists every registered family, at 0 where nothing was set.
GatherRegistered(r) ==
    [e \in DOMAIN r \cup { <<f>> : f \in Families \ { x[1] : x \in DOMAIN r } } |->
        IF e \in DOMAIN r THEN r[e] ELSE Num(0)]

\* promhttp.Handler(): the response holds the registry as it is at the request.
Gather(r) == r

scriptVersion == "0.8.5"

----------------------------------------------------------------------------
(* The scheduler: the five goroutines of main and their loop bodies *)

Tasks == {"t1m", "t5m", "t1h", "t3h", "t6h"}

\* The 3-hour goroutine calls GrabNICMTU as well.
BodyShared(t) ==
    CASE t = "t1m" -> <<"ReadReconFile.account", "ReadReconFile.container",
                        "ReadReconFile.object", "GrabSwiftPartition", "SwiftDiskUsage",
                        "SwiftDriveIO", "CheckObjectServerConnection", "ExposePerCPUUsage",
                        "ExposePerNICMetric", "GrabNICMTU">>
      [] t = "t5m" -> <<"CheckSwiftService">>
      [] t = "t1h" -> <<"RunSMARTCTL">>
      [] t = "t3h" -> <<"GrabNICMTU", "CheckSwiftLogSize", "CountFilesPerSwiftDrive">>
      [] t = "t6h" -> <<"GatherStoragePolicyUtilization">>

Body(t) ==
    CASE t = "t1m" -> <<"ReadReconFile.account", "ReadReconFile.container",
                        "ReadReconFile.object", "GrabSwiftPartition", "SwiftDiskUsage",
                        "SwiftDriveIO", "CheckObjectServerConnection", "ExposePerCPUUsage",
                        "ExposePerNICMetric", "GrabNICMTU">>
      [] t = "t5m" -> <<"CheckSwiftService">>
      [] t = "t1h" -> <<"RunSMARTCTL">>
      [] t = "t3h" -> <<"CheckSwiftLogSize", "CountFilesPerSwiftDrive">>
      [] t = "t6h" -> <<"GatherStoragePolicyUtilization">>

\* The argument of time.Sleep at the end of the loop body, in minutes.
Period(t) ==
    CASE t = "t1m" -> 1
      [] t = "t5m" -> 5
      [] t = "t1h" -> 60
      [] t = "t3h" -> 180
      [] t = "t6h" -> 360

\* The function a call site of a loop body calls.
FunctionOf(c) ==
    IF c \in {"ReadReconFile.account", "ReadReconFile.container", "ReadReconFile.object"}
    THEN "ReadReconFile"
    ELSE c

\* The Config field a call site passes as the collector's enable argument;
\* "" for a collector without one.
FlagOf(c) ==
    CASE c \in {"ReadReconFile.account", "ReadReconFile.container", "ReadReconFile.object"}
            -> "ReadReconFileEnable"
      [] c = "GrabSwiftPartition" -> "GrabSwiftPartitionEnable"
      [] c = "SwiftDiskUsage" -> "SwiftDiskUsageEnable"
      [] c = "SwiftDriveIO" -> "SwiftDriveIOEnable"
      [] c = "CheckObjectServerConnection" -> "CheckObjectServerConnectionEnable"
      [] c = "ExposePerCPUUsage" -> "ExposePerCPUUsageEnable"
      [] c = "ExposePerNICMetric" -> "ExposePerNICMetricEnable"
      [] c = "GatherStoragePolicyUtilization" -> "GatherStoragePolicyUtilizationEnable"
      [] OTHER -> ""

\* Call sites that pass true whatever the configuration says.
EnableArgIgnored(c, cfg) == TRUE

EnableArg(c, cfg) == IF FlagOf(c) = "" THEN TRUE ELSE cfg[FlagOf(c)]

----------------------------------------------------------------------------
(* External calls and what they return *)

\* GetUUIDAndFQDN: opens /etc/ssnode.conf and runs "hostname -f".
IdentIO == {"open /etc/ssnode.conf", "hostname -f"}

\* What GetSwiftEnvironmentParameters meets: no api_hostname and no api_ip in
\* ssnode.conf, a failed GET, a reply without a version, a reply with one.
InfoReplies ==
    { [st |-> "noaddress", major |-> 0, minor |-> 0],
      [st |-> "getfail", major |-> 0, minor |-> 0],
      [st |-> "noversion", major |-> 0, minor |-> 0],
      [st |-> "ok", major |-> 2, minor |-> 14],
      [st |-> "ok", major |-> 2, minor |-> 20] }

\* The struct json.Unmarshal leaves when the file could not be opened or does
\* not parse: every field zero.
ZeroRecon == [st |-> "fail", attempted |-> 0, replication_time |-> 0, disks |-> {}]

\* What os.Open + ioutil.ReadAll + json.Unmarshal of a recon file give: the
\* zero struct, or a pass of one minute over one disk.
ReconReads ==
    {ZeroRecon} \cup
    { [st |-> "ok", attempted |-> a, replication_time |-> 1, disks |-> {"d0"}] :
        a \in 1..MaxCount }

NotRead == [st |-> "notread", attempted |-> 0, replication_time |-> 0, disks |-> {}]

\* GetSwiftEnvironmentParameters returns only for a reply that carries a
\* version of the form major.minor; ReadReconFile indexes swiftVersion[1].
InfoPanics(info) == info.st # "ok"

RoleOf(c) ==
    CASE c = "ReadReconFile.account" -> "account"
      [] c = "ReadReconFile.container" -> "container"
      [] c = "ReadReconFile.object" -> "object"
      [] OTHER -> ""

\* The locals of a ReadReconFile call after its external calls: the identity
\* and the cluster info are fetched before the enable flag is looked at.
ReadReconFileCalls(en) ==
    UNION { { [io |-> IdentIO \cup (IF i.st = "noaddress" THEN {} ELSE {"GET /info"})
                     \cup (IF f.st = "notread" THEN {} ELSE {"open recon file"}),
               info |-> i, file |-> f] :
              f \in {x \in ReconReads \cup {NotRead} :
                        (x.st = "notread") <=> (InfoPanics(i) \/ ~en)} } :
            i \in InfoReplies }

\* No gate: every version is taken to have the sharding and per-disk fields.
VersionGateOpen(info) == TRUE

\* if swiftMajorVersion >= 2 { if swiftMinorVersion >= 15 {
VersionGate(info) == info.major >= 2 /\ info.minor >= 15

ReadReconWrites(role, info, f) ==
    CASE role = "account" ->
           << <<<<"account_server", "replicator", "replication_time">>, Num(f.replication_time)>>,
              <<<<"account_server", "replicator", "attempted">>, Num(f.attempted)>>,
              <<<<"swift_account_replication_estimage", "parts_per_second">>,
                FDiv(f.attempted, f.replication_time)>> >>
      [] role = "container" ->
           << <<<<"container_server", "replicator", "replication_time">>, Num(f.replication_time)>>,
              <<<<"container_server", "replicator", "attempted">>, Num(f.attempted)>> >>
           \o (IF VersionGate(info)
               THEN << <<<<"swift_container_sharding", "sharding_stats", "attempted">>,
                         Num(f.attempted)>> >>
               ELSE <<>>)
           \o << <<<<"swift_container_replication_estimate", "parts_per_second">>,
                   FDiv(f.attempted, f.replication_time)>> >>
      [] role = "object" ->
           << <<<<"object_server", "replicator", "object_replication_time">>,
                Num(f.replication_time)>> >>
           \o (IF VersionGate(info) /\ "d0" \in f.disks
               THEN << <<<<"swift_object_replication_per_disk", "replicator_per_disk",
                           "attempted", "d0">>, Num(f.attempted)>>,
                       <<<<"swift_object_replication_per_disk_estimate",
                           "parts_per_second_per_disk", "d0">>,
                         FDiv(f.attempted, f.replication_time * 60)>> >>
               ELSE <<>>)
           \o << <<<<"object_server", "replicator", "attempted">>, Num(f.attempted)>>,
                 <<<<"swift_object_replication_estimate", "parts_per_second">>,
                   FDiv(f.attempted, f.replication_time * 60)>>,
                 <<<<"swift_object_replication_estimate", "time_used">>,
                   Num(f.replication_time * 60)>> >>

Returns(ws) == [kind |-> "return", cause |-> "", writes |-> ws]
Panics(cause, ws) == [kind |-> "panic", cause |-> cause, writes |-> ws]
Exits(cause) == [kind |-> "exit", cause |-> cause, writes |-> <<>>]

\* ReadReconFile(ReconFile, SwiftRole, ReadReconFileEnable)
ReadReconFile(role, en, o) ==
    IF InfoPanics(o.info) THEN Panics("GetSwiftEnvironmentParameters:" \o o.info.st, <<>>)
    ELSE IF en THEN Returns(ReadReconWrites(role, o.info, o.file))
    ELSE Returns(<<>>)

\* The result of one external read: st is "ok", "fail" or "none" (not made).
NoRes == [st |-> "none", n |-> 0]
FailRes == [st |-> "fail", n |-> 0]
OkRes(n) == [st |-> "ok", n |-> n]

\* A line of swift.conf, by what the scan looks at: a section header that
\* contains "storage-policy:" with its index, a line with an "=" and what
\* follows it, or any other line.
Section(i) == [k |-> "section", v |-> i]
Assign(v) == [k |-> "assign", v |-> v]
Plain == [k |-> "plain", v |-> ""]

\* The swift.conf of a node with the one storage policy of index 0.
DefaultConf == <<Section("0"), Assign("Policy-0")>>

\* The loop of GatherStoragePolicyCommonName from line i on: the line after
\* a section header is split at "=" and its second part is taken, which is
\* an index out of range when the line has no "=" or the file has ended.
\* The map is a set of <<index, name>> pairs.
RECURSIVE ScanPolicies(_, _, _)
ScanPolicies(lines, i, names) ==
    IF i > Len(lines) THEN [st |-> "ok", names |-> names]
    ELSE IF lines[i].k = "section"
    THEN IF i + 1 <= Len(lines) /\ lines[i + 1].k = "assign"
         THEN ScanPolicies(lines, i + 2,
                           { p \in names : p[1] # lines[i].v }
                               \cup { <<lines[i].v, lines[i + 1].v>> })
         ELSE [st |-> "panic", names |-> names]
    ELSE ScanPolicies(lines, i + 1, names)

\* GatherStoragePolicyCommonName(): log.Fatal when swift.conf cannot be opened.
GatherStoragePolicyCommonName(o) ==
    IF o.conf.st = "fail" THEN [st |-> "exit", names |-> {}]
    ELSE ScanPolicies(o.lines, 1, {})

\* storagePolicyNameList[index]: the empty string for a missing key.
PolicyLookup(names, index) ==
    IF \E p \in names : p[1] = index
    THEN (CHOOSE p \in names : p[1] = index)[2]
    ELSE ""

\* GrabSwiftPartition: the identity is read before the flag is looked at;
\* GatherStoragePolicyCommonName ends the process (log.Fatal) when swift.conf
\* cannot be opened; a progress file that cannot be read leaves the map empty.
GrabSwiftPartitionCalls(en) ==
    IF ~en THEN { [io |-> IdentIO, conf |-> NoRes, res |-> NoRes, lines |-> <<>>] }
    ELSE { [io |-> IdentIO \cup {"open swift.conf"}, conf |-> FailRes, res |-> NoRes,
            lines |-> <<>>] }
         \cup { [io |-> IdentIO \cup {"open swift.conf", "disk.Partitions",
                                      "open progress file", "read rotational"},
                 conf |-> OkRes(1), res |-> r, lines |-> DefaultConf] :
                r \in {FailRes} \cup {OkRes(n) : n \in 1..MaxCount} }

\* strconv.FormatInt(int64(j), 10)
FormatInt(j) == <<"0", "1", "2", "3", "4", "5", "6", "7", "8", "9">>[j + 1]

\* The directory label of the j-th pass of the loop: "objects" for 0, and
\* strings.Join([]string{"objects", index}, "-") otherwise.
ObjectDirectory(j) == IF j = 0 THEN "objects" ELSE "objects-" \o FormatInt(j)

RECURSIVE ObjectPartitionLoop(_, _, _, _)
\* for j := 0; j < len(storagePolicyNameList); j++: the name is looked up
\* under the loop counter, the directory is built from it.
ObjectPartitionLoop(j, names, n, ws) ==
    IF j >= Cardinality(names) THEN ws
    ELSE ObjectPartitionLoop(j + 1, names, n,
            ws \o << <<<<"swift_drive_primary_partitions", "d0",
                         PolicyLookup(names, FormatInt(j)), ObjectDirectory(j)>>, Num(n)>>,
                     <<<<"swift_drive_handoff_partitions", "d0",
                         PolicyLookup(names, FormatInt(j)), ObjectDirectory(j)>>, Num(n)>> >>)

\* GrabSwiftPartition(replicationProgressFile, GrabSwiftPartitionEnable), one
\* drive d0 whose every directory has o.res.n partitions of each kind in the
\* progress file.
GrabSwiftPartition(en, o) ==
    IF ~en THEN Returns(<<>>)
    ELSE LET list == GatherStoragePolicyCommonName(o)
         IN  CASE list.st = "exit" -> Exits("GatherStoragePolicyCommonName:open")
               [] list.st = "panic" -> Panics("GatherStoragePolicyCommonName:index", <<>>)
               [] OTHER ->
                    Returns(ObjectPartitionLoop(0, list.names, o.res.n,
                        << <<<<"swift_drive_primary_partitions", "d0",
                               "Account & Container", "account">>, Num(o.res.n)>>,
                           <<<<"swift_drive_handoff_partitions", "d0",
                               "Account & Container", "account">>, Num(o.res.n)>> >>))

\* A collector that makes the external calls ios when enabled, and none otherwise.
GatedCalls(en, ios, results) ==
    IF en THEN { [io |-> ios, res |-> r] : r \in results }
    ELSE { [io |-> {}, res |-> NoRes] }

SwiftDiskUsageCalls(en) ==
    GatedCalls(en, {"disk.Partitions", "read rotational", "disk.Usage"}, {OkRes(1)})

\* SwiftDiskUsage(SwiftDiskUsageEnable): a drive of 2 units with o.res.n used.
SwiftDiskUsage(en, o) ==
    IF ~en THEN Returns(<<>>)
    ELSE Returns(
        << <<<<"swift_drive_usage", "d0", "HDD", "total">>, Num(2)>>,
           <<<<"swift_drive_usage", "d0", "HDD", "used">>, Num(o.res.n)>>,
           <<<<"swift_drive_percentage_used", "/srv/node/d0">>, FDiv(o.res.n, 2)>> >>)

SwiftDriveIOCalls(en) ==
    GatedCalls(en, {"disk.Partitions", "disk.IOCounters", "read rotational"} \cup IdentIO,
               {OkRes(1)})

\* SwiftDriveIO(SwiftDriveIOEnable)
SwiftDriveIO(en, o) ==
    IF ~en THEN Returns(<<>>)
    ELSE Returns(<< <<<<"swift_drive_io_stat", "sdb1", "readCount", "HDD">>, Num(o.res.n)>> >>)

CheckObjectServerConnectionCalls(en) ==
    GatedCalls(en, {"process.Pids", "net.ConnectionsPid"}, {OkRes(1)})

\* CheckObjectServerConnection(enable): Set(float64(counter) - 1)
CheckObjectServerConnection(en, o) ==
    IF ~en THEN Returns(<<>>)
    ELSE Returns(<< <<<<"swift_object_server_connection">>, Num(o.res.n - 1)>> >>)

ExposePerCPUUsageCalls(en) ==
    GatedCalls(en, {"cpu.Times"} \cup IdentIO, {OkRes(1)})

\* ExposePerCPUUsage(enable): one CPU with user time o.res.n and idle time 1.
ExposePerCPUUsage(en, o) ==
    IF ~en THEN Returns(<<>>)
    ELSE Returns(
        << <<<<"cpu_stat", "cpu0", "usr">>, FDiv(o.res.n, o.res.n + 1)>>,
           <<<<"cpu_stat", "cpu0", "idle">>, FDiv(1, o.res.n + 1)>> >>)

ExposePerNICMetricCalls(en) ==
    GatedCalls(en, {"net.IOCounters", "net.Interfaces"} \cup IdentIO, {OkRes(1)})

\* ExposePerNICMetric(enable)
ExposePerNICMetric(en, o) ==
    IF ~en THEN Returns(<<>>)
    ELSE Returns(<< <<<<"nic_stat", "eth0", "byte_sent">>, Num(o.res.n)>> >>)

GrabNICMTUCalls ==
    { [io |-> IdentIO \cup {"ls /sys/class/net", "cat mtu"}, res |-> r] :
        r \in {FailRes, OkRes(1)} }

\* GrabNICMTU(): getMTU[:len(getMTU)-1] is out of range when cat gave nothing.
GrabNICMTU(o) ==
    IF o.res.st = "fail" THEN Panics("GrabNICMTU:slice", <<>>)
    ELSE Returns(<< <<<<"nic_mtu", "eth0">>, Num(o.res.n)>> >>)

CheckSwiftLogSizeCalls ==
    { [io |-> {"open swift log"}, res |-> r] : r \in {FailRes, OkRes(1)} }

\* CheckSwiftLogSize(swiftLog): os.Exit(1) when the log cannot be opened.
CheckSwiftLogSize(o) ==
    IF o.res.st = "fail" THEN Exits("CheckSwiftLogSize:open")
    ELSE Returns(<< <<<<"swift_log_file_size">>, Num(o.res.n)>> >>)

CountFilesPerSwiftDriveCalls ==
    { [io |-> IdentIO \cup {"filepath.Walk"}, res |-> OkRes(1)] }

\* CountFilesPerSwiftDrive(): the walk function returns nil for every path.
CountFilesPerSwiftDrive(o) ==
    Returns(<< <<<<"account_db">>, Num(o.res.n)>>,
               <<<<"container_db">>, Num(o.res.n)>>,
               <<<<"object_file_count">>, Num(o.res.n)>> >>)

\* A directory of a drive: its name and strings.Split(name, "-").
Dir(name, parts) == [name |-> name, parts |-> parts]
ObjectsDir == Dir("objects", <<"objects">>)

\* strings.Contains(f.Name(), "objects")
ContainsObjects(dir) == \E i \in DOMAIN dir.parts : dir.parts[i] = "objects"

\* The name GatherStoragePolicyUtilization gives the directory.
StoragePolicyNameOf(dir, names) ==
    IF Len(dir.parts) = 1 THEN PolicyLookup(names, "0")
    ELSE PolicyLookup(names, dir.parts[2])

\* The entry of swift_storage_policy_usage of a directory of drive d0.
PolicyEntry(dir, name) == <<"swift_storage_policy_usage", "/srv/node/d0", dir.name, name>>

GatherStoragePolicyUtilizationCalls(en) ==
    IF ~en THEN { [io |-> {}, conf |-> NoRes, res |-> NoRes, lines |-> <<>>, dirs |-> <<>>] }
    ELSE { [io |-> {"open swift.conf"}, conf |-> FailRes, res |-> NoRes,
            lines |-> <<>>, dirs |-> <<>>],
           [io |-> IdentIO \cup {"open swift.conf", "disk.Partitions", "ioutil.ReadDir", "du -s"},
            conf |-> OkRes(1), res |-> OkRes(1),
            lines |-> DefaultConf, dirs |-> <<ObjectsDir>>] }

\* GatherStoragePolicyUtilization(enable)
GatherStoragePolicyUtilization(en, o) ==
    IF ~en THEN Returns(<<>>)
    ELSE LET list == GatherStoragePolicyCommonName(o)
             found == SelectSeq(o.dirs, ContainsObjects)
         IN  CASE list.st = "exit" -> Exits("GatherStoragePolicyCommonName:open")
               [] list.st = "panic" -> Panics("GatherStoragePolicyCommonName:index", <<>>)
               [] OTHER ->
                    Returns([i \in 1..Len(found) |->
                               <<PolicyEntry(found[i], StoragePolicyNameOf(found[i], list.names)),
                                 Num(o.res.n)>>])

swiftServices ==
    <<"ssswift-proxy", "ssswift-account@server", "ssswift-container@server",
      "ssswift-object@server">>

swiftSubServices ==
    <<"ssswift-object-replication@server", "ssswift-object-replication@reconstructor.service",
      "ssswift-object-replication@replicator", "ssswift-object@updater",
      "ssswift-object@auditor", "ssswift-container-replication@sharder",
      "ssswift-container-replication@replicator", "ssswift-container-replication@server",
      "ssswift-container@updater", "ssswift-container@auditor",
      "ssswift-account-replication@replicator", "ssswift-account-replication@server",
      "ssswift-account@reaper", "ssswift-account@auditor">>

\* What "systemctl check <unit>" gives: a non-zero exit, the output "active",
\* or a zero exit with another output.
CheckResults == {"fail", "active", "other"}

\* The locals of a CheckSwiftService call: the same result for the four main
\* services and the same result for the fourteen sub-services.
CheckSwiftServiceCalls ==
    { [io |-> IdentIO \cup {"systemctl check"},
       main |-> [i \in 1..Len(swiftServices) |-> m],
       sub |-> [j \in 1..Len(swiftSubServices) |-> s]] :
        m \in CheckResults, s \in CheckResults }

StatusOf(result) == IF result = "active" THEN Num(1) ELSE Num(0)

RECURSIVE MainServiceLoop(_, _, _)
\* for i := 0; i < len(swiftServices); i++
MainServiceLoop(i, main, ws) ==
    IF i > Len(swiftServices) THEN ws
    ELSE MainServiceLoop(i + 1, main,
            IF main[i] = "other" THEN ws
            ELSE Append(ws, <<<<"swift_service_status", swiftServices[i]>>, StatusOf(main[i])>>))

RECURSIVE SubServiceLoop(_, _, _)
\* for j := 0; j < len(swiftSubServices); j++: both branches index
\* swiftServices[j] and write swiftServiceStatus.
SubServiceLoop(j, sub, ws) ==
    IF j > Len(swiftSubServices) THEN Returns(ws)
    ELSE IF sub[j] = "other" THEN SubServiceLoop(j + 1, sub, ws)
    ELSE IF j > Len(swiftServices) THEN Panics("CheckSwiftService:index", ws)
    ELSE SubServiceLoop(j + 1, sub,
            Append(ws, <<<<"swift_service_status", swiftServices[j]>>, StatusOf(sub[j])>>))

\* CheckSwiftService()
CheckSwiftService(o) == SubServiceLoop(1, o.sub, MainServiceLoop(1, o.main, <<>>))

\* The locals of a RunSMARTCTL call on the one drive /dev/sdb1: "which
\* smartctl" fails, or the drive is an HDD or a Samsung SSD and the smartctl
\* output has or lacks the attribute line the code looks for.
RunSMARTCTLCalls ==
    { [io |-> IdentIO \cup {"disk.Partitions", "read rotational", "which smartctl"},
       which |-> "fail", type |-> "HDD", line |-> FALSE] }
    \cup { [io |-> IdentIO \cup {"disk.Partitions", "read rotational", "which smartctl",
                                 "smartctl -A"}
                   \cup (IF ty = "SSD" THEN {"smartctl -i"} ELSE {}),
            which |-> "ok", type |-> ty, line |-> l] :
           ty \in {"HDD", "SSD"}, l \in BOOLEAN }

\* RunSMARTCTL(): the HDD branch passes three label values to a gauge vector
\* declared with four labels, and WithLabelValues panics.
RunSMARTCTL(o) ==
    IF o.which = "fail" \/ ~o.line THEN Returns(<<>>)
    ELSE IF o.type = "HDD" THEN Panics("RunSMARTCTL:labels", <<>>)
    ELSE Returns(<< <<<<"swift_drive_wear_leveling_count", "/dev/sdb1", "SSD">>, Num(1)>> >>)

\* The locals a call of collector c may end its external calls with.
CallsOf(c, en) ==
    CASE RoleOf(c) # "" -> ReadReconFileCalls(en)
      [] c = "GrabSwiftPartition" -> GrabSwiftPartitionCalls(en)
      [] c = "SwiftDiskUsage" -> SwiftDiskUsageCalls(en)
      [] c = "SwiftDriveIO" -> SwiftDriveIOCalls(en)
      [] c = "CheckObjectServerConnection" -> CheckObjectServerConnectionCalls(en)
      [] c = "ExposePerCPUUsage" -> ExposePerCPUUsageCalls(en)
      [] c = "ExposePerNICMetric" -> ExposePerNICMetricCalls(en)
      [] c = "GrabNICMTU" -> GrabNICMTUCalls
      [] c = "CheckSwiftService" -> CheckSwiftServiceCalls
      [] c = "RunSMARTCTL" -> RunSMARTCTLCalls
      [] c = "CheckSwiftLogSize" -> CheckSwiftLogSizeCalls
      [] c = "CountFilesPerSwiftDrive" -> CountFilesPerSwiftDriveCalls
      [] c = "GatherStoragePolicyUtilization" -> GatherStoragePolicyUtilizationCalls(en)

\* What the call does with those locals: its gauge writes, and whether it
\* returns, panics or exits.
Outcome(c, en, o) ==
    CASE RoleOf(c) # "" -> ReadReconFile(RoleOf(c), en, o)
      [] c = "GrabSwiftPartition" -> GrabSwiftPartition(en, o)
      [] c = "SwiftDiskUsage" -> SwiftDiskUsage(en, o)
      [] c = "SwiftDriveIO" -> SwiftDriveIO(en, o)
      [] c = "CheckObjectServerConnection" -> CheckObjectServerConnection(en, o)
      [] c = "ExposePerCPUUsage" -> ExposePerCPUUsage(en, o)
      [] c = "ExposePerNICMetric" -> ExposePerNICMetric(en, o)
      [] c = "GrabNICMTU" -> GrabNICMTU(o)
      [] c = "CheckSwiftService" -> CheckSwiftService(o)
      [] c = "RunSMARTCTL" -> RunSMARTCTL(o)
      [] c = "CheckSwiftLogSize" -> CheckSwiftLogSize(o)
      [] c = "CountFilesPerSwiftDrive" -> CountFilesPerSwiftDrive(o)
      [] c = "GatherStoragePolicyUtilization" -> GatherStoragePolicyUtilization(en, o)

----------------------------------------------------------------------------
(* State *)

EmptyReg == [x \in {} |-> NaN]
NoCall == [io |-> {}, idle |-> TRUE]
NoSanity == [before |-> DefaultConfig, present |-> {}, ran |-> FALSE]
NoSnap == [served |-> FALSE, body |-> EmptyReg]
Running == [code |-> -1, cause |-> ""]

Alive == exit.code = -1

\* os.Exit, log.Fatal or an unrecovered panic: the process ends with this
\* status, and its goroutines and its registry end with it.
Ends(code, cause) ==
    /\ exit' = [code |-> code, cause |-> cause]
    /\ reg' = EmptyReg
    /\ pc' = [t \in Tasks |-> 0]
    /\ loc' = [t \in Tasks |-> NoCall]
    /\ hung' = [t \in Tasks |-> FALSE]
    /\ UNCHANGED <<phase, config, registered>>

Init ==
    /\ phase = "init"
    /\ exit = Running
    /\ argKind = "unset"
    /\ sanity = NoSanity
    /\ config = DefaultConfig
    /\ registered = {}
    /\ reg = EmptyReg
    /\ pc = [t \in Tasks |-> 0]
    /\ loc = [t \in Tasks |-> NoCall]
    /\ hung = [t \in Tasks |-> FALSE]
    /\ snap = NoSnap

----------------------------------------------------------------------------
(* Start-up: the init functions and main up to the go statements.  sanity and
   snap describe the step just taken: the arguments of the sanity check it
   made and the response it sent, if any. *)


\* The MustRegister calls of the init functions, in the order of the calls:
\* hardwareprofile.go, smartctl.go, swift.go and the main package.
HardwareRegistrations ==
    <<"cpu_stat", "nic_stat", "swift_drive_usage", "swift_inodes_total",
      "swift_drive_io_stat", "nic_mtu", "swift_drive_percentage_used">>

SmartctlRegistrations ==
    <<"swift_drive_reallocated_sector_count", "swift_drive_offline_uncorrectable_count",
      "swift_drive_media_wearout_indicator_count", "swift_drive_wear_leveling_count",
      "swift_object_server_connection">>

SwiftRegistrations ==
    <<"account_server", "container_server", "object_server",
      "swift_object_replication_per_disk", "swift_object_replication_estimate",
      "swift_object_replication_per_disk_estimate", "swift_container_sharding",
      "swift_drive_primary_partitions", "swift_drive_handoff_partitions",
      "swift_log_file_size", "swift_storage_policy_usage",
      "swift_container_replication_estimate", "swift_account_replication_estimage",
      "account_db", "account_db_pending", "container_db", "container_db_pending",
      "object_file_count", "swift_service_status", "swift_sub_service_status">>

MainRegistrations == <<"ac_script_version">>

\* swift_storage_policy_usage, declared in hardwareprofile.go, registered by
\* the init function of that file as well.
RegistrationsTwice ==
    HardwareRegistrations \o <<"swift_storage_policy_usage">> \o SmartctlRegistrations
        \o SwiftRegistrations \o MainRegistrations

Registrations ==
    HardwareRegistrations \o SmartctlRegistrations \o SwiftRegistrations
        \o MainRegistrations

\* prometheus.MustRegister, call after call: a name the registry holds
\* already is an AlreadyRegisteredError, and MustRegister panics on an error.
RECURSIVE MustRegister(_, _, _)
MustRegister(names, i, done) ==
    IF i > Len(names) THEN [ok |-> TRUE, set |-> done]
    ELSE IF names[i] \in done THEN [ok |-> FALSE, set |-> done]
    ELSE MustRegister(names, i + 1, done \cup {names[i]})

\* The init functions of the packages: prometheus.MustRegister of every family.
PackageInit ==
    /\ Alive /\ phase = "init"
    /\ LET r == MustRegister(Registrations, 1, {}) IN
        IF r.ok
        THEN /\ registered' = r.set
             /\ phase' = "main"
             /\ UNCHANGED <<exit, config, reg, pc, loc, hung>>
        ELSE Ends(2, "MustRegister:duplicate")
    /\ sanity' = NoSanity /\ snap' = NoSnap
    /\ UNCHANGED argKind

\* main: argv and docopt.ParseArgs.  With --help docopt prints the usage and
\* exits 0; a path that does not exist leaves argv nil and docopt reads
\* os.Args itself, so the path still arrives in ConfigFileExist.
ParseArgs ==
    /\ Alive /\ phase = "main"
    /\ \E a \in ArgKinds :
        /\ argKind' = a
        /\ IF a = "help"
           THEN Ends(0, "docopt:help")
           ELSE /\ phase' = "args"
                /\ UNCHANGED <<exit, config, registered, reg, pc, loc, hung>>
    /\ sanity' = NoSanity /\ snap' = NoSnap

\* main goes on to the branches without setting the version gauge.
SetVersionGaugeSkipped ==
    /\ Alive /\ phase = "args"
    /\ phase' = "version"
    /\ sanity' = NoSanity /\ snap' = NoSnap
    /\ UNCHANGED <<exit, argKind, config, registered, reg, pc, loc, hung>>

\* abScriptVersionPara.WithLabelValues(scriptVersion).Set(0.00)
SetVersionGauge ==
    /\ Alive /\ phase = "args"
    /\ reg' = GaugeSet(reg, <<"ac_script_version", scriptVersion>>, Num(0))
    /\ phase' = "version"
    /\ sanity' = NoSanity /\ snap' = NoSnap
    /\ UNCHANGED <<exit, argKind, config, registered, pc, loc, hung>>

\* ParseConfigFile: the errors of os.Open and ioutil.ReadAll are dropped, so an
\* unreadable file is an empty document; only a YAML error is fatal.
ParseConfigFile(cfg, kind, yaml) ==
    CASE kind = "badyaml" -> [exits |-> TRUE, cfg |-> cfg]
      [] kind = "unreadable" -> [exits |-> FALSE, cfg |-> cfg]
      [] OTHER -> [exits |-> FALSE, cfg |-> Unmarshal(cfg, yaml)]

\* The documents ParseConfigFile may find in a file of the given kind.
Documents(kind) == IF kind = "goodyaml" THEN YamlFiles ELSE {[f \in {} |-> TRUE]}

\* main: "else if _, err := os.Stat(ConfigFileExist); err == nil": the file
\* exists and is parsed.
ParseConfigFileStep ==
    /\ Alive /\ phase = "version"
    /\ argKind \in {"unreadable", "badyaml", "goodyaml"}
    /\ \E y \in Documents(argKind) :
        LET r == ParseConfigFile(config, argKind, y) IN
        IF r.exits
        THEN Ends(1, "ParseConfigFile:yaml")
        ELSE /\ config' = r.cfg
             /\ phase' = "parsed"
             /\ UNCHANGED <<exit, registered, reg, pc, loc, hung>>
    /\ sanity' = NoSanity /\ snap' = NoSnap
    /\ UNCHANGED argKind

\* Whether main reaches SanityCheckOnFiles from where it is.
SanityCheckDue ==
    \/ phase = "version" /\ argKind = "none"
    \/ phase = "parsed"

SanityCheckStep ==
    /\ Alive /\ SanityCheckDue
    /\ \E present \in FileStates :
        LET r == SanityCheckOnFiles(config, present) IN
        /\ sanity' = [before |-> config, present |-> present, ran |-> TRUE]
        /\ IF r.exits
           THEN Ends(1, "SanityCheckOnFiles:swift.conf")
           ELSE /\ config' = r.cfg
                /\ phase' = "checked"
                /\ UNCHANGED <<exit, registered, reg, pc, loc, hung>>
    /\ snap' = NoSnap
    /\ UNCHANGED argKind

\* main with a path that os.Stat does not find: neither branch is taken.
NoConfigBranch ==
    /\ Alive /\ phase = "version" /\ argKind = "missing"
    /\ phase' = "checked"
    /\ sanity' = NoSanity /\ snap' = NoSnap
    /\ UNCHANGED <<exit, argKind, config, registered, reg, pc, loc, hung>>

\* The go statements placed before the two branches of main.
StartTasksEarly ==
    /\ Alive /\ phase = "version" /\ \A t \in Tasks : pc[t] = 0
    /\ pc' = [t \in Tasks |-> 1]
    /\ sanity' = NoSanity /\ snap' = NoSnap
    /\ UNCHANGED <<phase, exit, argKind, config, registered, reg, loc, hung>>

\* The five go statements; main does not read ConfigFileExist again.
StartTasks ==
    /\ Alive /\ phase = "checked"
    /\ pc' = [t \in Tasks |-> 1]
    /\ phase' = "tasks"
    /\ argKind' = "unset"
    /\ sanity' = NoSanity /\ snap' = NoSnap
    /\ UNCHANGED <<exit, config, registered, reg, loc, hung>>

\* http.Handle + http.ListenAndServe, wrapped in writeLogFile.Fatal.
ListenAndServe ==
    /\ Alive /\ phase = "tasks"
    /\ \/ /\ phase' = "serving"
          /\ UNCHANGED <<exit, config, registered, reg, pc, loc, hung>>
       \/ Ends(1, "ListenAndServe")
    /\ sanity' = NoSanity /\ snap' = NoSnap
    /\ UNCHANGED argKind

\* GET /metrics
Scrape ==
    /\ Alive /\ phase = "serving"
    /\ snap' = [served |-> TRUE, body |-> Gather(reg)]
    /\ sanity' = NoSanity
    /\ UNCHANGED <<phase, exit, argKind, config, registered, reg, pc, loc, hung>>

----------------------------------------------------------------------------
(* The goroutines, one collector call at a time *)

Current(t) == Body(t)[pc[t]]

\* Collectors run in turn on one thread: a blocked call holds up everyone.
RunnableInTurn(t) == Alive /\ pc[t] >= 1 /\ \A u \in Tasks : ~hung[u]

\* A goroutine runs on its own: nothing but the end of the process, or its
\* own blocked call, stops it.
Runnable(t) == Alive /\ pc[t] >= 1 /\ ~hung[t]

InBody(t) == pc[t] \in 1..Len(Body(t))

\* The exit status of a process that ends in a goroutine: 2 for an
\* unrecovered panic, 1 for os.Exit(1) and log.Fatal.
StatusOfEnd(kind) == IF kind = "panic" THEN 2 ELSE 1

\* The external calls of the next collector of t return.
Call(t) ==
    /\ Runnable(t) /\ InBody(t) /\ loc[t] = NoCall
    /\ \E o \in CallsOf(Current(t), EnableArg(Current(t), config)) :
        loc' = [loc EXCEPT ![t] = o]
    /\ sanity' = NoSanity /\ snap' = NoSnap
    /\ UNCHANGED <<phase, exit, argKind, config, registered, reg, pc, hung>>

\* An external call of the next collector of t never returns.
Hang(t) ==
    /\ Runnable(t) /\ InBody(t) /\ loc[t] = NoCall
    /\ \E o \in CallsOf(Current(t), EnableArg(Current(t), config)) : o.io # {}
    /\ hung' = [hung EXCEPT ![t] = TRUE]
    /\ sanity' = NoSanity /\ snap' = NoSnap
    /\ UNCHANGED <<phase, exit, argKind, config, registered, reg, pc, loc>>

\* The collector writes its gauges and returns, panics or exits.
Return(t) ==
    /\ Runnable(t) /\ InBody(t) /\ loc[t] # NoCall
    /\ LET out == Outcome(Current(t), EnableArg(Current(t), config), loc[t]) IN
        IF out.kind = "return"
        THEN /\ reg' = ApplyWrites(reg, out.writes)
             /\ pc' = [pc EXCEPT ![t] = @ + 1]
             /\ loc' = [loc EXCEPT ![t] = NoCall]
             /\ UNCHANGED <<phase, exit, config, registered, hung>>
        ELSE Ends(StatusOfEnd(out.kind), out.cause)
    /\ sanity' = NoSanity /\ snap' = NoSnap
    /\ UNCHANGED argKind

\* The loop sleeps and starts over after any collector of its body.
SleepAnywhere(t) ==
    /\ Runnable(t) /\ pc[t] > 1 /\ loc[t] = NoCall
    /\ pc' = [pc EXCEPT ![t] = 1]
    /\ sanity' = NoSanity /\ snap' = NoSnap
    /\ UNCHANGED <<phase, exit, argKind, config, registered, reg, loc, hung>>

\* time.Sleep returns and the loop starts over.
Sleep(t) ==
    /\ Runnable(t) /\ pc[t] = Len(Body(t)) + 1
    /\ pc' = [pc EXCEPT ![t] = 1]
    /\ sanity' = NoSanity /\ snap' = NoSnap
    /\ UNCHANGED <<phase, exit, argKind, config, registered, reg, loc, hung>>

----------------------------------------------------------------------------
(* The goroutines, one pass of the loop at a time *)

\* The external world in which every call answers, with one drive, one CPU,
\* one NIC, Swift 2.20, a Samsung SSD and units that are up.
Healthy(c, o) ==
    CASE RoleOf(c) # "" ->
            /\ o.info = [st |-> "ok", major |-> 2, minor |-> 20]
            /\ o.file.st # "fail" /\ o.file.attempted <= 1
      [] c = "CheckSwiftService" -> o.main[1] = "active" /\ o.sub[1] = "other"
      [] c = "RunSMARTCTL" -> o.type = "SSD" /\ o.line
      [] c \in {"GrabSwiftPartition", "GatherStoragePolicyUtilization"} ->
            o.conf.st # "fail" /\ o.res.st # "fail" /\ o.res.n <= 1
      [] OTHER -> o.res.st # "fail" /\ o.res.n <= 1

\* What a pass meets: the healthy world, or a failure that ends the process.
PassCalls(c, en) ==
    { o \in CallsOf(c, en) : Healthy(c, o) \/ Outcome(c, en, o).kind # "return" }

RECURSIVE RunsFrom(_, _, _)
\* The ways the loop body of t runs from its k-th call on: to the sleep, into
\* a call that blocks, or into the end of the process.
RunsFrom(t, k, cfg) ==
    IF k > Len(Body(t))
    THEN { [writes |-> <<>>, end |-> "sleep", at |-> 1, cause |-> ""] }
    ELSE LET c == Body(t)[k]
             en == EnableArg(c, cfg)
         IN  (IF \E o \in CallsOf(c, en) : o.io # {}
              THEN { [writes |-> <<>>, end |-> "hang", at |-> k, cause |-> ""] }
              ELSE {})
             \cup UNION {
                 LET out == Outcome(c, en, o) IN
                 IF out.kind = "return"
                 THEN { [r EXCEPT !.writes = out.writes \o @] : r \in RunsFrom(t, k + 1, cfg) }
                 ELSE { [writes |-> out.writes, end |-> out.kind, at |-> k,
                         cause |-> out.cause] } :
                 o \in PassCalls(c, en) }

\* The configurations main can reach its go statements with.
ParsedConfigs ==
    {DefaultConfig} \cup { ParseConfigFile(DefaultConfig, "goodyaml", y).cfg : y \in YamlFiles }

StartConfigs ==
    {DefaultConfig} \cup
    { SanityCheckOnFiles(c, p).cfg :
        c \in ParsedConfigs, p \in {q \in FileStates : "SwiftConfigFile" \in q} }

\* The passes of each goroutine under each configuration the goroutines can
\* be started with.
Passes == [t \in Tasks, cfg \in StartConfigs |-> RunsFrom(t, 1, cfg)]

\* One pass of the goroutine t: for { collectors...; time.Sleep(...) }
Iterate(t) ==
    /\ Runnable(t) /\ pc[t] = 1 /\ loc[t] = NoCall
    /\ \E run \in Passes[t, config] :
        IF run.end \in {"sleep", "hang"}
        THEN /\ reg' = ApplyWrites(reg, run.writes)
             /\ pc' = [pc EXCEPT ![t] = run.at]
             /\ hung' = [hung EXCEPT ![t] = (run.end = "hang")]
             /\ UNCHANGED <<phase, exit, config, registered, loc>>
        ELSE Ends(StatusOfEnd(run.end), run.cause)
    /\ sanity' = NoSanity /\ snap' = NoSnap
    /\ UNCHANGED argKind

----------------------------------------------------------------------------
(* The process: start-up, the five goroutines pass by pass, the endpoint *)

Next ==
    \/ PackageInit \/ ParseArgs \/ SetVersionGauge \/ ParseConfigFileStep
    \/ SanityCheckStep \/ NoConfigBranch \/ StartTasks \/ ListenAndServe
    \/ \E t \in Tasks : Iterate(t)
    \/ Scrape

Spec == Init /\ [][Next]_vars

----------------------------------------------------------------------------
(* One goroutine call by call, and the endpoint, from the state main leaves
   once it listens *)

InitCollect ==
    /\ phase = "serving"
    /\ exit = Running
    /\ argKind = "unset"
    /\ sanity = NoSanity
    /\ config \in StartConfigs
    /\ registered = Families
    /\ reg = GaugeSet(EmptyReg, <<"ac_script_version", scriptVersion>>, Num(0))
    /\ \E t \in Tasks : pc = [u \in Tasks |-> IF u = t THEN 1 ELSE 0]
    /\ loc = [t \in Tasks |-> NoCall]
    /\ hung = [t \in Tasks |-> FALSE]
    /\ snap = NoSnap

NextCollect ==
    \/ \E t \in Tasks : Call(t) \/ Hang(t) \/ Return(t) \/ Sleep(t)
    \/ Scrape

SpecCollect == InitCollect /\ [][NextCollect]_vars

----------------------------------------------------------------------------
(* GetAPIAddress and GetUUIDAndFQDN alone: a call is about to read the
   node-identity file, and the step is the whole function *)

MaxIdentLines == 2

IdentKeys == {"api_ip", "api_port", "api_hostname", "node_uuid"}

\* A line of ssnode.conf, by what the functions look at: the keys it
\* contains (strings.Contains) and strings.Split(line, "=").
KeyLine(k, v) == [keys |-> {k}, parts |-> <<k \o " ", v>>]
BareLine(k) == [keys |-> {k}, parts |-> <<k>>]
OtherLine == [keys |-> {}, parts |-> <<"# ssnode">>]

IdentValue(k) ==
    CASE k = "api_ip" -> " 10.0.0.1"
      [] k = "api_port" -> " 8080 "
      [] k = "api_hostname" -> " api.example"
      [] k = "node_uuid" -> " 7f3a"

IdentLines ==
    { KeyLine(k, IdentValue(k)) : k \in IdentKeys } \cup { BareLine(k) : k \in IdentKeys }
        \cup { OtherLine }

\* strings.TrimSpace on the values above.
TrimSpace(v) ==
    CASE v = " 10.0.0.1" -> "10.0.0.1"
      [] v = " 8080 " -> "8080"
      [] v = " api.example" -> "api.example"
      [] v = " 7f3a" -> "7f3a"
      [] OTHER -> v

\* The file at the path: one that os.Open cannot open, or its lines.
NoFile == [st |-> "fail", lines |-> <<>>]
IdentFiles ==
    { NoFile } \cup { [st |-> "ok", lines |-> l] :
                        l \in UNION { [1..n -> IdentLines] : n \in 0..MaxIdentLines } }

\* Reading through the nil *os.File is a nil dereference.
ScanLinesNilPanics(file) ==
    IF file.st = "fail" THEN [st |-> "panic", lines |-> <<>>]
    ELSE [st |-> "ok", lines |-> file.lines]

\* os.Open, defer Close, bufio.NewScanner and the Scan loop: Close and Read
\* on the nil *os.File of a failed Open return an error, so the loop body
\* never runs.
ScanLines(file) ==
    IF file.st = "fail" THEN [st |-> "ok", lines |-> <<>>]
    ELSE [st |-> "ok", lines |-> file.lines]

\* strings.Split(line, "=")[1] of a line that contains one of the keys is an
\* index out of range when the line has no "=".
SplitPanics(lines, keys) ==
    \E i \in DOMAIN lines : lines[i].keys \cap keys # {} /\ Len(lines[i].parts) < 2

\* The value the loop leaves in the variable of key k: that of the last line
\* that contains k, "" when there is none.
LastValue(lines, k) ==
    LET at == { i \in DOMAIN lines : k \in lines[i].keys }
    IN  IF at = {} THEN ""
        ELSE TrimSpace(lines[CHOOSE i \in at : \A j \in at : j <= i].parts[2])

NoRet == [st |-> "none"]

\* GetAPIAddress(ssnodeConfig)
GetAPIAddress(file) ==
    LET sc == ScanLines(file) IN
    IF sc.st = "panic" \/ SplitPanics(sc.lines, {"api_ip", "api_port", "api_hostname"})
    THEN [st |-> "panic"]
    ELSE [st |-> "return",
          apiAddress |-> LastValue(sc.lines, "api_ip"),
          apiPort |-> LastValue(sc.lines, "api_port"),
          apiHostname |-> LastValue(sc.lines, "api_hostname"),
          err |-> file.st = "fail"]

\* GetUUIDAndFQDN(ssnodeConfig): the return statement gives the host name
\* for the result named UUID and the node_uuid of the file for the result
\* named FQDN.
GetUUIDAndFQDN(file, host) ==
    LET sc == ScanLines(file) IN
    IF sc.st = "panic" \/ SplitPanics(sc.lines, {"node_uuid"})
    THEN [st |-> "panic"]
    ELSE [st |-> "return",
          UUID |-> host,
          FQDN |-> LastValue(sc.lines, "node_uuid"),
          err |-> file.st = "fail"]

\* What "hostname -f" prints, without the newline; "" when it fails.
HostNames == {"", "node1.example"}

\* The frame of a call that has not returned yet.
IdentityCalls ==
    { [io |-> {}, idle |-> FALSE, fn |-> "GetAPIAddress", file |-> f, host |-> "",
       ret |-> NoRet] : f \in IdentFiles }
    \cup { [io |-> {}, idle |-> FALSE, fn |-> "GetUUIDAndFQDN", file |-> f, host |-> h,
            ret |-> NoRet] : f \in IdentFiles, h \in HostNames }

InIdentity(t) == "ret" \in DOMAIN loc[t]

InitIdentity ==
    /\ phase = "serving"
    /\ exit = Running
    /\ argKind = "unset"
    /\ sanity = NoSanity
    /\ config = DefaultConfig
    /\ registered = Families
    /\ reg = GaugeSet(EmptyReg, <<"ac_script_version", scriptVersion>>, Num(0))
    /\ pc = [u \in Tasks |-> IF u = "t1m" THEN 1 ELSE 0]
    /\ \E c \in IdentityCalls : loc = [u \in Tasks |-> IF u = "t1m" THEN c ELSE NoCall]
    /\ hung = [t \in Tasks |-> FALSE]
    /\ snap = NoSnap

\* The function runs to its return statement, or panics.
ReturnIdentity(t) ==
    /\ Runnable(t) /\ InIdentity(t) /\ loc[t].ret = NoRet
    /\ LET r == IF loc[t].fn = "GetAPIAddress" THEN GetAPIAddress(loc[t].file)
                ELSE GetUUIDAndFQDN(loc[t].file, loc[t].host)
       IN  IF r.st = "panic"
           THEN Ends(2, loc[t].fn \o ":index")
           ELSE /\ loc' = [loc EXCEPT ![t].ret = r]
                /\ UNCHANGED <<phase, exit, config, registered, reg, pc, hung>>
    /\ sanity' = NoSanity /\ snap' = NoSnap
    /\ UNCHANGED argKind

NextIdentity == \E t \in Tasks : ReturnIdentity(t)

SpecIdentity == InitIdentity /\ [][NextIdentity]_vars

----------------------------------------------------------------------------
(* ReadReconFile alone: the call has made its external calls, and the step
   is the rest of the function, over a range of versions and file contents *)

\* Versions <<major, minor>> the /info reply may carry.
ReconVersions == {<<1, 20>>, <<2, 14>>, <<2, 15>>, <<2, 20>>, <<3, 0>>}

\* Values of the "attempted" and "replication_time" fields of a recon file
\* that parses; a field the file lacks decodes as 0.
ReconCounters == {0, 1, 120}
ReconMinutes == {0, 1, 2}

ReconInputs ==
    { [io |-> IdentIO \cup {"GET /info", "open recon file"},
       info |-> [st |-> "ok", major |-> v[1], minor |-> v[2]],
       file |-> [st |-> "ok", attempted |-> a, replication_time |-> m, disks |-> {"d0"}]] :
        v \in ReconVersions, a \in ReconCounters, m \in ReconMinutes }

\* The registry the call starts from: as main leaves it, or as an earlier
\* pass of the three calls under version 2.20 left it.
ReconRegs ==
    LET fresh == GaugeSet(EmptyReg, <<"ac_script_version", scriptVersion>>, Num(0))
        info == [st |-> "ok", major |-> 2, minor |-> 20]
        file == [st |-> "ok", attempted |-> 1, replication_time |-> 1, disks |-> {"d0"}]
    IN  { fresh,
          ApplyWrites(fresh, ReadReconWrites("account", info, file)
                             \o ReadReconWrites("container", info, file)
                             \o ReadReconWrites("object", info, file)) }

InitRecon ==
    /\ phase = "serving"
    /\ exit = Running
    /\ argKind = "unset"
    /\ sanity = NoSanity
    /\ config = DefaultConfig
    /\ registered = Families
    /\ reg \in ReconRegs
    /\ \E k \in 1..3 : pc = [u \in Tasks |-> IF u = "t1m" THEN k ELSE 0]
    /\ \E o \in ReconInputs : loc = [u \in Tasks |-> IF u = "t1m" THEN o ELSE NoCall]
    /\ hung = [t \in Tasks |-> FALSE]
    /\ snap = NoSnap

NextRecon == \E t \in Tasks : Return(t)

SpecRecon == InitRecon /\ [][NextRecon]_vars

----------------------------------------------------------------------------
(* GatherStoragePolicyUtilization alone: swift.conf and the drive have been
   read, and the step is the rest of the function, over a range of files *)

MaxLines == 4

PolicyLines == {Section("0"), Section("1"), Assign("Gold"), Assign("Silver"), Plain}

PolicyConfs == UNION { [1..n -> PolicyLines] : n \in 0..MaxLines }

\* The directories of drive d0, in the order ioutil.ReadDir lists them.
PolicyDirs ==
    <<Dir("accounts", <<"accounts">>), ObjectsDir, Dir("objects-1", <<"objects", "1">>),
      Dir("objects-9", <<"objects", "9">>)>>

PolicyInputs ==
    { [io |-> {"open swift.conf"}, conf |-> FailRes, res |-> NoRes,
       lines |-> <<>>, dirs |-> <<>>] }
    \cup { [io |-> IdentIO \cup {"open swift.conf", "disk.Partitions", "ioutil.ReadDir", "du -s"},
            conf |-> OkRes(1), res |-> OkRes(1), lines |-> c, dirs |-> PolicyDirs] :
             c \in PolicyConfs }

InitPolicy ==
    /\ phase = "serving"
    /\ exit = Running
    /\ argKind = "unset"
    /\ sanity = NoSanity
    /\ config = DefaultConfig
    /\ registered = Families
    /\ reg = GaugeSet(EmptyReg, <<"ac_script_version", scriptVersion>>, Num(0))
    /\ pc = [u \in Tasks |-> IF u = "t6h" THEN 1 ELSE 0]
    /\ \E o \in PolicyInputs : loc = [u \in Tasks |-> IF u = "t6h" THEN o ELSE NoCall]
    /\ hung = [t \in Tasks |-> FALSE]
    /\ snap = NoSnap

NextPolicy == \E t \in Tasks : Return(t)

SpecPolicy == InitPolicy /\ [][NextPolicy]_vars

----------------------------------------------------------------------------
(* GrabSwiftPartition alone: swift.conf, the drive list and the progress file
   have been read, and the step is the rest of the function, over a range of
   swift.conf files *)

\* The swift.conf files: up to MaxLines lines, each a header of policy 0, 1 or
\* 2, a name line, or another line.
PartitionConfs ==
    UNION { [1..n -> {Section("0"), Section("1"), Section("2"), Assign("Gold"), Plain}] :
              n \in 0..MaxLines }

PartitionInputs ==
    { [io |-> IdentIO \cup {"open swift.conf"}, conf |-> FailRes, res |-> NoRes,
       lines |-> <<>>] }
    \cup { [io |-> IdentIO \cup {"open swift.conf", "disk.Partitions",
                                 "open progress file", "read rotational"},
            conf |-> OkRes(1), res |-> OkRes(1), lines |-> c] :
             c \in PartitionConfs }

InitPartition ==
    /\ phase = "serving"
    /\ exit = Running
    /\ argKind = "unset"
    /\ sanity = NoSanity
    /\ config = DefaultConfig
    /\ registered = Families
    /\ reg = GaugeSet(EmptyReg, <<"ac_script_version", scriptVersion>>, Num(0))
    /\ pc = [u \in Tasks |-> IF u = "t1m" THEN 4 ELSE 0]
    /\ \E o \in PartitionInputs : loc = [u \in Tasks |-> IF u = "t1m" THEN o ELSE NoCall]
    /\ hung = [t \in Tasks |-> FALSE]
    /\ snap = NoSnap

NextPartition == \E t \in Tasks : Return(t)

SpecPartition == InitPartition /\ [][NextPartition]_vars

----------------------------------------------------------------------------
(* Two goroutines side by side, call by call, in the world of PassCalls *)

\* The external calls of the next collector of t return.
CallInPass(t) ==
    /\ Runnable(t) /\ InBody(t) /\ loc[t] = NoCall
    /\ \E o \in PassCalls(Current(t), EnableArg(Current(t), config)) :
        loc' = [loc EXCEPT ![t] = o]
    /\ sanity' = NoSanity /\ snap' = NoSnap
    /\ UNCHANGED <<phase, exit, argKind, config, registered, reg, pc, hung>>

InitPair ==
    /\ phase = "serving"
    /\ exit = Running
    /\ argKind = "unset"
    /\ sanity = NoSanity
    /\ config \in StartConfigs
    /\ registered = Families
    /\ reg = GaugeSet(EmptyReg, <<"ac_script_version", scriptVersion>>, Num(0))
    /\ \E t, u \in Tasks :
        /\ t # u
        /\ pc = [v \in Tasks |-> IF v \in {t, u} THEN 1 ELSE 0]
    /\ loc = [t \in Tasks |-> NoCall]
    /\ hung = [t \in Tasks |-> FALSE]
    /\ snap = NoSnap

NextPair == \E t \in Tasks : CallInPass(t) \/ Return(t) \/ Sleep(t)

SpecPair == InitPair /\ [][NextPair]_vars

----------------------------------------------------------------------------
(* The first pass of one goroutine, with the node identity each collector
   reads for itself and puts on its entries as the last two label values *)

\* What GetUUIDAndFQDN returns: before and after the host is renamed.
Identities ==
    { [fqdn |-> "node1.example", uuid |-> "7f3a"],
      [fqdn |-> "node2.example", uuid |-> "7f3a"] }

\* The locals of a call with the identity it read.
WithIdent(o, id) == [f \in DOMAIN o \cup {"ident"} |-> IF f = "ident" THEN id ELSE o[f]]

\* WithLabelValues(..., hostFQDN, hostUUID)
Tag(e, id) == e \o <<id.fqdn, id.uuid>>

\* The writes of a call, under the identity the call read if it read one.
TaggedWrites(o, ws) ==
    IF "ident" \in DOMAIN o
    THEN [i \in DOMAIN ws |-> <<Tag(ws[i][1], o.ident), ws[i][2]>>]
    ELSE ws

\* The external calls of the next collector of t return; GetUUIDAndFQDN, if
\* the collector calls it, returns the identity of that moment.
CallLabelled(t) ==
    /\ Runnable(t) /\ InBody(t) /\ loc[t] = NoCall
    /\ \E o \in PassCalls(Current(t), EnableArg(Current(t), config)) :
        IF IdentIO \subseteq o.io
        THEN \E id \in Identities : loc' = [loc EXCEPT ![t] = WithIdent(o, id)]
        ELSE loc' = [loc EXCEPT ![t] = o]
    /\ sanity' = NoSanity /\ snap' = NoSnap
    /\ UNCHANGED <<phase, exit, argKind, config, registered, reg, pc, hung>>

\* The collector writes its gauges and returns, panics or exits.
ReturnLabelled(t) ==
    /\ Runnable(t) /\ InBody(t) /\ loc[t] # NoCall
    /\ LET out == Outcome(Current(t), EnableArg(Current(t), config), loc[t]) IN
        IF out.kind = "return"
        THEN /\ reg' = ApplyWrites(reg, TaggedWrites(loc[t], out.writes))
             /\ pc' = [pc EXCEPT ![t] = @ + 1]
             /\ loc' = [loc EXCEPT ![t] = NoCall]
             /\ UNCHANGED <<phase, exit, config, registered, hung>>
        ELSE Ends(StatusOfEnd(out.kind), out.cause)
    /\ sanity' = NoSanity /\ snap' = NoSnap
    /\ UNCHANGED argKind

InitLabels ==
    /\ phase = "serving"
    /\ exit = Running
    /\ argKind = "unset"
    /\ sanity = NoSanity
    /\ config = DefaultConfig
    /\ registered = Families
    /\ reg = GaugeSet(EmptyReg, <<"ac_script_version", scriptVersion>>, Num(0))
    /\ \E t \in Tasks : pc = [u \in Tasks |-> IF u = t THEN 1 ELSE 0]
    /\ loc = [t \in Tasks |-> NoCall]
    /\ hung = [t \in Tasks |-> FALSE]
    /\ snap = NoSnap

NextLabels == \E t \in Tasks : CallLabelled(t) \/ ReturnLabelled(t)

SpecLabels == InitLabels /\ [][NextLabels]_vars

----------------------------------------------------------------------------
(* One goroutine in a world where every external call returns: the Go
   scheduler runs a goroutine that can run, and time.Sleep returns *)

NextLive == (\E t \in Tasks : Call(t) \/ Return(t) \/ Sleep(t)) \/ Scrape

SpecLive ==
    /\ InitCollect
    /\ [][NextLive]_vars
    /\ \A t \in Tasks : WF_vars(Call(t) \/ Return(t) \/ Sleep(t))

----------------------------------------------------------------------------
(* ReadReconFile one Set call at a time, with the endpoint answering in
   between: the handler runs on a goroutine of its own and the function
   holds no lock across its Set calls *)

\* The locals of a call with the number of Set calls it has made.
WithDone(o, k) == [f \in DOMAIN o \cup {"done"} |-> IF f = "done" THEN k ELSE o[f]]

InSets(t) == InBody(t) /\ "done" \in DOMAIN loc[t]

\* The Set calls of the call in flight, in program order.
SetsOf(t) == Outcome(Current(t), EnableArg(Current(t), config), loc[t]).writes

InitSets ==
    /\ phase = "serving"
    /\ exit = Running
    /\ argKind = "unset"
    /\ sanity = NoSanity
    /\ config = DefaultConfig
    /\ registered = Families
    /\ reg \in ReconRegs
    /\ \E k \in 1..3 : pc = [u \in Tasks |-> IF u = "t1m" THEN k ELSE 0]
    /\ \E o \in ReconInputs :
        loc = [u \in Tasks |-> IF u = "t1m" THEN WithDone(o, 0) ELSE NoCall]
    /\ hung = [t \in Tasks |-> FALSE]
    /\ snap = NoSnap

\* The next WithLabelValues(...).Set(...) of the call.
SetNext(t) ==
    /\ Runnable(t) /\ InSets(t)
    /\ loc[t].done < Len(SetsOf(t))
    /\ LET w == SetsOf(t)[loc[t].done + 1] IN reg' = GaugeSet(reg, w[1], w[2])
    /\ loc' = [loc EXCEPT ![t] = WithDone(loc[t], loc[t].done + 1)]
    /\ sanity' = NoSanity /\ snap' = NoSnap
    /\ UNCHANGED <<phase, exit, argKind, config, registered, pc, hung>>

\* The call is past its last Set: it returns, or ends the process.
FinishCall(t) ==
    /\ Runnable(t) /\ InSets(t)
    /\ loc[t].done = Len(SetsOf(t))
    /\ LET out == Outcome(Current(t), EnableArg(Current(t), config), loc[t]) IN
        IF out.kind = "return"
        THEN /\ pc' = [pc EXCEPT ![t] = @ + 1]
             /\ loc' = [loc EXCEPT ![t] = NoCall]
             /\ UNCHANGED <<phase, exit, config, registered, reg, hung>>
        ELSE Ends(StatusOfEnd(out.kind), out.cause)
    /\ sanity' = NoSanity /\ snap' = NoSnap
    /\ UNCHANGED argKind

NextSets == (\E t \in Tasks : SetNext(t) \/ FinishCall(t)) \/ Scrape

SpecSets == InitSets /\ [][NextSets]_vars

----------------------------------------------------------------------------
(* Properties *)

\* The step in which the collector call of t in progress returns to the loop.
Returned(t) == InBody(t) /\ loc[t] # NoCall /\ pc'[t] = pc[t] + 1

\* The gauge writes of the collector call of t in progress.
WritesOf(t) == Outcome(Current(t), EnableArg(Current(t), config), loc[t]).writes

\* The entries a sequence of writes touches, and the last value it gives one.
Written(ws) == { ws[i][1] : i \in 1..Len(ws) }
LastWrite(ws, e) ==
    LET I == { i \in 1..Len(ws) : ws[i][1] = e }
    IN  ws[CHOOSE i \in I : \A j \in I : j <= i][2]

\* The current collector of t takes an enable flag and the flag is false.
Disabled(t) ==
    InBody(t) /\ FlagOf(Current(t)) # "" /\ ~config[FlagOf(Current(t))]

\* C1: while a collector call of one task is blocked, that task makes no
\* further pass, every other started task can still make its next pass, and
\* the endpoint, once listening, can still answer.
C1_HungTaskDelaysOnlyItself ==
    \A t \in Tasks : hung[t] =>
        /\ ~ENABLED Iterate(t)
        /\ \A u \in Tasks \ {t} : (pc[u] >= 1 /\ ~hung[u]) => ENABLED Iterate(u)
        /\ phase = "serving" => ENABLED Scrape

\* The 5-minute task is blocked, the 1-minute task has completed a pass and the
\* endpoint has just answered.
C1_Witness ==
    /\ hung["t5m"] /\ ~hung["t1m"] /\ pc["t1m"] = 1
    /\ <<"nic_mtu", "eth0">> \in DOMAIN reg
    /\ snap.served

\* C2: once the tasks are started no failure of a collector's external call
\* ends the process; only the listener's own failure does.
C2_CollectorFailureNeverEndsProcess ==
    phase \in {"tasks", "serving"} => (Alive \/ exit.cause = "ListenAndServe")

\* C3: an enabled ReadReconFile call whose recon file could not be opened or
\* decoded returns with the registry as it was before the call.
C3_FailedReadKeepsValues ==
    [][\A t \in Tasks :
        (/\ Returned(t) /\ RoleOf(Current(t)) # ""
         /\ config["ReadReconFileEnable"] /\ loc[t].file.st = "fail")
        => reg' = reg]_vars

\* C4: a call of a collector whose enable flag is false returns with every
\* registry entry as it was: none created, none modified.
C4_DisabledLeavesRegistry ==
    [][\A t \in Tasks : (Returned(t) /\ Disabled(t)) => reg' = reg]_vars

\* The 1-minute task has called every collector that takes a flag, all flags
\* are false, and the registry holds the version gauge only.
C4_Witness ==
    /\ pc["t1m"] = 10 /\ loc["t1m"] = NoCall
    /\ \A f \in Flags : ~config[f]
    /\ DOMAIN reg = {<<"ac_script_version", scriptVersion>>}

\* C5: a collector called with its enable flag false makes no external call.
C5_DisabledDoesNoIO ==
    \A t \in Tasks : (Disabled(t) /\ loc[t] # NoCall) => loc[t].io = {}

\* C6: after SanityCheckOnFiles, a module that was enabled and misses a file it
\* needs is disabled: ReadReconFile when a recon file is absent,
\* GrabSwiftPartition when the replication-progress file is absent.
C6_MissingFileDisablesModule ==
    (sanity.ran /\ Alive) =>
        /\ (sanity.before["ReadReconFileEnable"] /\ ~(ReconFiles \subseteq sanity.present))
            => ~config["ReadReconFileEnable"]
        /\ (sanity.before["GrabSwiftPartitionEnable"]
            /\ "ReplicationProgressFile" \notin sanity.present)
            => ~config["GrabSwiftPartitionEnable"]

\* C7: with a config-file path that does not exist, cannot be read or does
\* not parse, main never reaches its go statements.
C7_ConfigErrorIsFatal ==
    argKind \in {"missing", "unreadable", "badyaml"} => phase # "checked"

\* C8: a returning collector call leaves in each entry it wrote the last value
\* it wrote there and every other entry as it was, and the response to a
\* scrape is the registry as it is at the request.
C8_LastWriteWins ==
    [][/\ \A t \in Tasks : Returned(t) =>
            /\ DOMAIN reg' = DOMAIN reg \cup Written(WritesOf(t))
            /\ \A e \in DOMAIN reg' :
                reg'[e] = IF e \in Written(WritesOf(t))
                          THEN LastWrite(WritesOf(t), e) ELSE reg[e]
       /\ snap'.served => snap'.body = reg']_vars

\* The endpoint answers right after ReadReconFile set the account entries
\* again, in a pass that follows a complete one.
C8_Witness ==
    /\ snap.served /\ pc["t1m"] = 2 /\ loc["t1m"] = NoCall
    /\ config["ReadReconFileEnable"]
    /\ <<"nic_mtu", "eth0">> \in DOMAIN snap.body
    /\ snap.body[<<"account_server", "replicator", "attempted">>] = Num(0)

\* C10: a second run of the collector call that just returned, against the
\* same external data, leaves the registry as the first run left it.
C10_CollectorsIdempotent ==
    [][\A t \in Tasks : Returned(t) => ApplyWrites(reg', WritesOf(t)) = reg']_vars

\* ReadReconFile has returned for the account role in a pass that follows a
\* complete one, having set the account entries again.
C10_Witness ==
    /\ pc["t1m"] = 2 /\ loc["t1m"] = NoCall
    /\ config["ReadReconFileEnable"]
    /\ <<"nic_mtu", "eth0">> \in DOMAIN reg
    /\ reg[<<"account_server", "replicator", "attempted">>] = Num(1)

\* C11: no entry of the registry holds NaN or Inf, the results of a division
\* by zero.
C11_NoNaNOrInf == \A e \in DOMAIN reg : reg[e][2] # 0

\* The rate that `counter` attempts in `minutes` minutes amount to, per second.
PerSecond(counter, minutes) == FDiv(counter[1], minutes[1] * 60)

\* The entries a returning call sets, with the values it sets them to.
SetBy(t) == { w[1] : w \in { WritesOf(t)[i] : i \in DOMAIN WritesOf(t) } }

\* A rate the call sets is the per-second rate of the counter and the time
\* the same call sets.
RateIs(rate, counter, minutes) ==
    rate \in SetBy("t1m") => reg'[rate] = PerSecond(reg'[counter], reg'[minutes])

\* C12: every published parts-per-second rate (account, container, object,
\* object per disk) equals counter / (elapsed_minutes * 60) of the attempted
\* counter and the replication time read in the same cycle.
C12_RateIsCounterPerSecond ==
    [][ Returned("t1m")
        => /\ RateIs(<<"swift_account_replication_estimage", "parts_per_second">>,
                     <<"account_server", "replicator", "attempted">>,
                     <<"account_server", "replicator", "replication_time">>)
           /\ RateIs(<<"swift_container_replication_estimate", "parts_per_second">>,
                     <<"container_server", "replicator", "attempted">>,
                     <<"container_server", "replicator", "replication_time">>)
           /\ RateIs(<<"swift_object_replication_estimate", "parts_per_second">>,
                     <<"object_server", "replicator", "attempted">>,
                     <<"object_server", "replicator", "object_replication_time">>)
           /\ RateIs(<<"swift_object_replication_per_disk_estimate",
                       "parts_per_second_per_disk", "d0">>,
                     <<"swift_object_replication_per_disk", "replicator_per_disk",
                       "attempted", "d0">>,
                     <<"object_server", "replicator", "object_replication_time">>) ]_vars

\* The entries behind the version gate: container sharding, and object
\* replication per disk.
ShardingEntries == { <<"swift_container_sharding", "sharding_stats", "attempted">> }
PerDiskEntries ==
    { <<"swift_object_replication_per_disk", "replicator_per_disk", "attempted", "d0">>,
      <<"swift_object_replication_per_disk_estimate", "parts_per_second_per_disk", "d0">> }

\* The cutoff: major version at least 2 and minor version at least 15.
PassesCutoff(info) == info.major >= 2 /\ info.minor >= 15

ConfiguredName(lines, index) ==
    LET at == { i \in 1..Len(lines) - 1 :
                   lines[i] = Section(index) /\ lines[i + 1].k = "assign" }
    IN  IF at = {} THEN "unknown"
        ELSE lines[(CHOOSE i \in at : \A k \in at : k <= i) + 1].v

\* The policy index of a directory: 0 for "objects", N for "objects-N".
IndexOf(dir) == IF Len(dir.parts) = 1 THEN "0" ELSE dir.parts[2]

\* C14: with swift.conf and the drive read, GatherStoragePolicyUtilization
\* does not end the process, and it publishes every objects directory under
\* the name swift.conf configures for its index, or under "unknown" when the
\* index has no entry in swift.conf.
C14_PolicyNameResolution ==
    [][ (InBody("t6h") /\ loc["t6h"] # NoCall)
        => /\ exit' = Running
           /\ \A i \in DOMAIN loc["t6h"].dirs :
                LET dir == loc["t6h"].dirs[i] IN
                ContainsObjects(dir) =>
                    PolicyEntry(dir, ConfiguredName(loc["t6h"].lines, IndexOf(dir)))
                        \in DOMAIN reg' ]_vars

VersionEntry == <<"ac_script_version", scriptVersion>>

\* C15: the version gauge is set before any collection task starts, for a
\* start with no config-file argument as for any other start, and every
\* answer to GET /metrics from then on is a non-empty body that contains it.
C15_VersionGaugeFirst ==
    /\ (Alive /\ argKind = "none" /\ phase \in {"version", "checked"})
            => VersionEntry \in DOMAIN reg
    /\ (\E t \in Tasks : pc[t] >= 1) => VersionEntry \in DOMAIN reg
    /\ snap.served => (snap.body # EmptyReg /\ VersionEntry \in DOMAIN snap.body)

\* A scrape answered while the tasks run under the configuration a start with
\* no argument leaves, before any collector has written: the body is the
\* version gauge alone.
C15_Witness ==
    /\ snap.served
    /\ config = DefaultConfig
    /\ \A t \in Tasks : pc[t] >= 1
    /\ DOMAIN snap.body = {VersionEntry}
    /\ snap.body[VersionEntry] = Num(0)

\* The entries the collectors returning in this step set.
SetInStep == UNION { IF Returned(t) THEN SetBy(t) ELSE {} : t \in Tasks }

RegistrationsDiffer ==
    Cardinality({ Registrations[i] : i \in DOMAIN Registrations }) = Len(Registrations)

\* One more MustRegister call for a family, whichever it is, aborts.
SecondRegistrationAborts ==
    \A f \in Families : ~MustRegister(Append(Registrations, f), 1, {}).ok

\* C17: every gauge family a collector writes is registered exactly once, by
\* the init functions and before any task runs its first collector: the calls
\* name 33 different families, start-up does not abort on a duplicate, the
\* registry of a started process holds every family, an entry never belongs
\* to a family that is not registered, and registering any family once more
\* would abort.
C17_RegisteredExactlyOnce ==
    /\ RegistrationsDiffer
    /\ exit.cause # "MustRegister:duplicate"
    /\ (phase # "init" /\ Alive) => registered = Families
    /\ (\E t \in Tasks : pc[t] >= 1) => registered = Families
    /\ \A e \in DOMAIN reg : e[1] \in registered
    /\ SecondRegistrationAborts

\* The process serves, every family is registered, and collectors of four
\* files' gauges have written: the version gauge, cpu_stat, account_server
\* and swift_object_server_connection.
C17_Witness ==
    /\ phase = "serving"
    /\ registered = Families
    /\ { "ac_script_version", "cpu_stat", "account_server", "swift_object_server_connection" }
            \subseteq { e[1] : e \in DOMAIN reg }

\* C18: GetAPIAddress and GetUUIDAndFQDN, called with a path that cannot be
\* opened, return without a panic, with a non-nil error and with "" for every
\* value parsed from the file.
C18_UnopenableIdentityFile ==
    [][ \A t \in Tasks :
          (InIdentity(t) /\ loc[t].ret = NoRet /\ loc[t].file = NoFile)
          => /\ exit' = Running
             /\ loc'[t].ret.st = "return"
             /\ loc'[t].ret.err
             /\ loc[t].fn = "GetAPIAddress" =>
                  /\ loc'[t].ret.apiAddress = ""
                  /\ loc'[t].ret.apiPort = ""
                  /\ loc'[t].ret.apiHostname = ""
             /\ loc[t].fn = "GetUUIDAndFQDN" => loc'[t].ret.FQDN = "" ]_vars

\* GetUUIDAndFQDN has returned from a path that cannot be opened, with the
\* error and the host name that "hostname -f" printed.
C18_Witness ==
    /\ InIdentity("t1m")
    /\ loc["t1m"].fn = "GetUUIDAndFQDN"
    /\ loc["t1m"].file = NoFile
    /\ loc["t1m"].ret.st = "return"
    /\ loc["t1m"].ret.err
    /\ loc["t1m"].ret.UUID = "node1.example"

\* The call of task t ends in this step, by a return or with the process.
CallEnds(t) == InBody(t) /\ loc[t] # NoCall /\ loc'[t] = NoCall

\* C19: after CheckSwiftService the status of each main service that was
\* found active or failing is in swift_service_status under its own name,
\* the status of each such sub-service is in swift_sub_service_status under
\* its own name, and no entry of a main service holds anything but the
\* result of its own check.
C19_ServiceStatusUnderOwnLabel ==
    [][ CallEnds("t5m")
        => LET o == loc["t5m"] IN
           /\ exit' = Running
           /\ \A i \in DOMAIN swiftServices :
                o.main[i] # "other" =>
                    /\ <<"swift_service_status", swiftServices[i]>> \in DOMAIN reg'
                    /\ reg'[<<"swift_service_status", swiftServices[i]>>] = StatusOf(o.main[i])
           /\ \A j \in DOMAIN swiftSubServices :
                o.sub[j] # "other" =>
                    /\ <<"swift_sub_service_status", swiftSubServices[j]>> \in DOMAIN reg'
                    /\ reg'[<<"swift_sub_service_status", swiftSubServices[j]>>]
                           = StatusOf(o.sub[j]) ]_vars

\* The functions the loop body of a task calls.
FunctionsOf(t) == { FunctionOf(Body(t)[i]) : i \in DOMAIN Body(t) }

\* Five tasks, of periods 1 min, 5 min, 1 h, 3 h and 6 h.
FiveTasks ==
    /\ Cardinality(Tasks) = 5
    /\ { Period(t) : t \in Tasks } = {1, 5, 60, 180, 360}
    /\ Cardinality({ Period(t) : t \in Tasks }) = 5

\* No function is called by two tasks.
DisjointTasks == \A t, u \in Tasks : t # u => FunctionsOf(t) \cap FunctionsOf(u) = {}

\* C20: there are exactly five tasks, of periods 1 min, 5 min, 1 h, 3 h and
\* 6 h, no two of which call the same collector function; a task starts and
\* ends the collectors of its body one after the other in the order of the
\* body, and goes back to the first only from the sleep that follows the last.
C20_FiveTasksFixedOrder ==
    [][ /\ FiveTasks
        /\ DisjointTasks
        /\ \A t \in Tasks :
            /\ (loc[t] = NoCall /\ loc'[t] # NoCall) => (InBody(t) /\ pc'[t] = pc[t])
            /\ (pc'[t] # pc[t] /\ exit' = Running) =>
                  \/ InBody(t) /\ loc[t] # NoCall /\ pc'[t] = pc[t] + 1
                  \/ pc[t] = Len(Body(t)) + 1 /\ pc'[t] = 1 ]_vars

\* The 1-minute task has run its ten collectors, GrabNICMTU last, and sleeps.
C20_Witness ==
    /\ pc["t1m"] = Len(Body("t1m")) + 1
    /\ Len(Body("t1m")) = 10
    /\ <<"nic_mtu", "eth0">> \in DOMAIN reg

\* The call sites of the loop bodies.
Collectors == UNION { { Body(t)[i] : i \in DOMAIN Body(t) } : t \in Tasks }

\* The entries a call of collector c can set, whatever its external calls
\* return, and the gauge families of those entries.
EntriesOf ==
    [c \in Collectors |->
        UNION { Written(Outcome(c, TRUE, o).writes) : o \in CallsOf(c, TRUE) }]
FamiliesOf == [c \in Collectors |-> { e[1] : e \in EntriesOf[c] }]

\* No gauge family is written by two collector functions.
FamiliesOwned ==
    \A c, d \in Collectors :
        FunctionOf(c) # FunctionOf(d) => FamiliesOf[c] \cap FamiliesOf[d] = {}

\* No entry is written by two tasks.
EntriesOwned ==
    \A t, u \in Tasks :
        t # u => \A i \in DOMAIN Body(t), j \in DOMAIN Body(u) :
                    EntriesOf[Body(t)[i]] \cap EntriesOf[Body(u)[j]] = {}

\* Task t is inside a collector call.
InCall(t) == InBody(t) /\ loc[t] # NoCall

\* C21: no gauge family is written by two different collector functions, no
\* entry is written by two different tasks, and two tasks that are inside a
\* collector call at the same time never have an entry in common to set.
C21_WritersDisjoint ==
    /\ FamiliesOwned
    /\ EntriesOwned
    /\ \A t, u \in Tasks :
        (t # u /\ InCall(t) /\ InCall(u)) => SetBy(t) \cap SetBy(u) = {}

\* The 1-minute task is inside ExposePerCPUUsage and the 5-minute task inside
\* CheckSwiftService, each with entries to set.
C21_Witness ==
    /\ InCall("t1m") /\ Current("t1m") = "ExposePerCPUUsage"
    /\ InCall("t5m")
    /\ SetBy("t1m") # {} /\ SetBy("t5m") # {}

\* A task has been started.
Started == \E t \in Tasks : pc[t] >= 1

\* C22: the module flags are written only by the config parse and by
\* SanityCheckOnFiles, both over before any task is started; once a task is
\* started no step of a task, a collector or the request handler changes
\* them.
C22_ConfigFrozenAfterStartup ==
    [][ /\ Started => config' = config
        /\ config' # config => (~Started /\ phase \in {"version", "parsed"})
        /\ Started' => phase' \in {"tasks", "serving"} ]_vars

\* The process serves with GrabSwiftPartition switched off by the start-up, after
\* the 1-minute task has run its collectors.
C22_Witness ==
    /\ phase = "serving"
    /\ ~config["GrabSwiftPartitionEnable"]
    /\ config["ExposePerCPUUsageEnable"]
    /\ <<"nic_mtu", "eth0">> \in DOMAIN reg
    /\ <<"cpu_stat", "cpu0", "idle">> \in DOMAIN reg

\* The identity an entry carries, for the entries that carry one.
Labelled(e) ==
    Len(e) > 2 /\ \E id \in Identities : e[Len(e) - 1] = id.fqdn /\ e[Len(e)] = id.uuid
IdentOf(e) == <<e[Len(e) - 1], e[Len(e)]>>

\* C23: all the entries written during one iteration of a task's loop carry
\* the same FQDN and UUID label values, whatever happens to the host name
\* meanwhile.  (The registry is empty but for the version gauge when the
\* first iteration starts, so its entries are those of the iteration.)
C23_OneIdentityPerIteration ==
    \A e, f \in DOMAIN reg : (Labelled(e) /\ Labelled(f)) => IdentOf(e) = IdentOf(f)

\* Task t has run the collectors of its body and sleeps.
Sleeping(t) == pc[t] = Len(Body(t)) + 1

\* C24: a task that has been started runs its collector sequence to the
\* sleep again and again, for ever, when every external call returns.
C24_TasksRunForever ==
    \A t \in Tasks : (pc[t] = 1) => []<>Sleeping(t)

\* The body agrees with registry r on the entries in E.
AgreesOn(body, r, E) ==
    \A e \in E : /\ e \in DOMAIN body <=> e \in DOMAIN r
                 /\ e \in DOMAIN r => body[e] = r[e]

\* C25: a scrape answered while ReadReconFile runs shows the entries that the
\* invocation writes either all as the invocation sets them or all as it
\* found them, never some of each.
C25_SnapshotNotTorn ==
    \A t \in Tasks :
        (snap.served /\ InSets(t)) =>
            \/ \A e \in SetBy(t) :
                  e \in DOMAIN snap.body /\ snap.body[e] = LastWrite(WritesOf(t), e)
            \/ \E r \in ReconRegs : AgreesOn(snap.body, r, SetBy(t))

\* C26: no write aborts on a label-count mismatch: a RunSMARTCTL call on an
\* HDD returns to the loop of its task whatever smartctl printed.
C26_HDDWritesSucceed ==
    [][ \A t \in Tasks :
          (CallEnds(t) /\ Current(t) = "RunSMARTCTL" /\ loc[t].type = "HDD")
              => (exit' = Running /\ pc'[t] = pc[t] + 1) ]_vars

\* C27: CheckSwiftService returns for every outcome of its service checks, and
\* the 5-minute task goes on to its sleep.
C27_CheckSwiftServiceReturns ==
    [][ \A t \in Tasks :
          (CallEnds(t) /\ Current(t) = "CheckSwiftService")
              => (exit' = Running /\ Sleeping(t)') ]_vars

\* The order of versions: by major number, then by minor number.
VersionLeq(v, w) == v.major < w.major \/ (v.major = w.major /\ v.minor <= w.minor)

\* The gated entries a ReadReconFile call on these inputs sets.
GatedSetBy(role, info, file) ==
    LET ws == ReadReconWrites(role, info, file)
    IN  { ws[i][1] : i \in DOMAIN ws } \cap (ShardingEntries \cup PerDiskEntries)

\* C28: the version gate is monotone: the gated entries a ReadReconFile
\* call would set under a version no greater than the reported one are set by
\* the call under the reported version, so a call under 3.0 sets what a call
\* under 2.15 sets.
C28_VersionGateMonotone ==
    [][ (Returned("t1m") /\ RoleOf(Current("t1m")) # "")
        => LET o == loc["t1m"]
               role == RoleOf(Current("t1m"))
           IN  \A v \in ReconVersions :
                 LET info == [st |-> "ok", major |-> v[1], minor |-> v[2]]
                 IN  VersionLeq(info, o.info)
                        => GatedSetBy(role, info, o.file) \subseteq SetBy("t1m") ]_vars

\* C29: SanityCheckOnFiles turns no module on: whatever files are present, a
\* module that is enabled after the check was enabled before it.
C29_SanityCheckNeverEnables ==
    sanity.ran => \A f \in Flags : config[f] => sanity.before[f]

\* The check has run, with every file present, on a configuration that has
\* ReadReconFile and GrabSwiftPartition off and the other modules on: the two
\* are still off and the others still on.
C29_Witness ==
    /\ sanity.ran /\ Alive
    /\ sanity.present = CheckedFiles
    /\ ~sanity.before["ReadReconFileEnable"] /\ ~config["ReadReconFileEnable"]
    /\ ~sanity.before["GrabSwiftPartitionEnable"] /\ ~config["GrabSwiftPartitionEnable"]
    /\ sanity.before["GatherReplicationEstimateEnable"]
    /\ config["GatherReplicationEstimateEnable"]

\* The storage-policy indexes swift.conf defines: the index of every
\* [storage-policy:index] header that a name line follows.
DefinedIndexes(lines) ==
    { lines[i].v : i \in { k \in 1..Len(lines) - 1 :
                             lines[k].k = "section" /\ lines[k + 1].k = "assign" } }

\* The object directory of a storage-policy index.
DirOfIndex(index) == IF index = "0" THEN "objects" ELSE "objects-" \o index

\* The object directories a call has set an entry of the family for.
ObjectDirsSet(t, family) ==
    { e[4] : e \in { x \in SetBy(t) : x[1] = family /\ x[3] # "Account & Container" } }

\* C30: a GrabSwiftPartition call that returns has set, for the drive, the
\* object primary and handoff partition entries of exactly the storage-policy
\* indexes that swift.conf defines, contiguous from 0 or not.
C30_EveryDefinedPolicyPublished ==
    [][ (Returned("t1m") /\ Current("t1m") = "GrabSwiftPartition")
        => \A family \in {"swift_drive_primary_partitions", "swift_drive_handoff_partitions"} :
             ObjectDirsSet("t1m", family)
                 = { DirOfIndex(index) : index \in DefinedIndexes(loc["t1m"].lines) } ]_vars

====
